---- MODULE Spec2Model ----
(***************************************************************************)
(* Model of heatmapReciever/heatmap_client.py: the HeatmapClient session   *)
(* driven by main(): the two control requests (initialize_backend,         *)
(* start_generation), the WebSocket receive loop of receive_frames, the    *)
(* per-frame base64 decode and file write, and the metadata (summary)      *)
(* write that follows the loop.                                            *)
(***************************************************************************)
EXTENDS Integers, Sequences, FiniteSets, TLC

\* ------------------------------------------------------------------ bounds
\* Most messages one stream delivers before the server must end it.
MaxMsgs == 3
\* Largest total_frames a generate response or a complete message announces.
MaxTotal == 2

\* ------------------------------------------------------- optional values
\* dict.get(key) of an absent key is Python's None: <<>> here, <<v>> when set.
None == <<>>
Some(v) == <<v>>

\* ----------------------------------------------------------- JSON values
\* The value under a message's "data" key: absent, null, a string (a
\* sequence of characters) or an object with a "status" member.
JAbsent == [kind |-> "absent", chars |-> <<>>, status |-> ""]
JNull == [kind |-> "null", chars |-> <<>>, status |-> ""]
JStr(s) == [kind |-> "str", chars |-> s, status |-> ""]
JDict(st) == [kind |-> "dict", chars |-> <<>>, status |-> st]

\* Base64 texts the server may send.  "QQ==" is the byte 65, "Qg==" the byte
\* 66, "Q" has one data character (undecodable), "Q!Q==" carries a character
\* outside the alphabet.
PayloadA == <<"Q", "Q", "=", "=">>
PayloadB == <<"Q", "g", "=", "=">>
PayloadBad == <<"Q">>
PayloadJunk == <<"Q", "!", "Q", "=", "=">>

\* ---------------------------------------------------------------- base64
\* The table with the entry of "Q" off by one (17 for 16).
B64Index_OffByOne(ch) ==
    CASE ch = "A" -> 0
      [] ch = "Q" -> 17
      [] ch = "g" -> 32
      [] OTHER -> 64

\* binascii's table_a2b_base64 on the characters used here; 64 stands for
\* "not in the alphabet".
B64Index(ch) ==
    CASE ch = "A" -> 0
      [] ch = "Q" -> 16
      [] ch = "g" -> 32
      [] OTHER -> 64

\* binascii.a2b_base64 in its default (non-strict) mode, character by
\* character: padding that completes a quad ends the parse, characters
\* outside the alphabet are skipped, and a quad left open is an error.
RECURSIVE A2B(_, _, _, _, _, _)
A2B(s, i, quad_pos, leftchar, pads, out) ==
    IF i > Len(s)
    THEN [ok |-> quad_pos = 0, bytes |-> out]
    ELSE IF s[i] = "="
    THEN IF quad_pos >= 2 /\ quad_pos + pads + 1 >= 4
         THEN [ok |-> TRUE, bytes |-> out]
         ELSE A2B(s, i + 1, quad_pos, leftchar,
                  IF quad_pos >= 2 THEN pads + 1 ELSE pads, out)
    ELSE LET c == B64Index(s[i]) IN
         IF c >= 64
         THEN A2B(s, i + 1, quad_pos, leftchar, pads, out)
         ELSE CASE quad_pos = 0 -> A2B(s, i + 1, 1, c, 0, out)
                [] quad_pos = 1 ->
                     A2B(s, i + 1, 2, c % 16, 0,
                         Append(out, (leftchar * 4 + c \div 16) % 256))
                [] quad_pos = 2 ->
                     A2B(s, i + 1, 3, c % 4, 0,
                         Append(out, (leftchar * 16 + c \div 4) % 256))
                [] OTHER ->
                     A2B(s, i + 1, 0, 0, 0,
                         Append(out, (leftchar * 64 + c) % 256))

\* base64.b64decode(frame_base64): a TypeError for anything but a string,
\* binascii.Error for an undecodable one.
b64decode(d) ==
    IF d.kind # "str"
    THEN [ok |-> FALSE, bytes |-> <<>>]
    ELSE A2B(d.chars, 1, 0, 0, 0, <<>>)

\* ------------------------------------------------------------ file system
\* Paths are sequences of components below the working directory.
\* output_dir is the --output default; __init__ creates it.
output_dir == <<"output", "received_frames">>

\* Directories that exist during the session.
Dirs == {<<>>, <<"output">>, output_dir, <<"etc">>}

\* File names a frame message may carry (as path components).
NameF0 == <<"frame_0000.png">>
NameF1 == <<"frame_0001.png">>
NameEscape == <<"..", "..", "etc", "passwd">>
NameNoDir == <<"sub", "frame.png">>
\* Another spelling of NameF0: "./frame_0000.png".
NameAlias == <<".", "frame_0000.png">>

\* The operating system's resolution of a path: ".." steps to the parent
\* (the root is its own parent), "." stays.
RECURSIVE Resolve(_, _)
Resolve(base, rel) ==
    IF rel = <<>>
    THEN base
    ELSE IF Head(rel) = ".."
    THEN Resolve(IF base = <<>> THEN <<>> ELSE SubSeq(base, 1, Len(base) - 1),
                 Tail(rel))
    ELSE IF Head(rel) = "."
    THEN Resolve(base, Tail(rel))
    ELSE Resolve(Append(base, Head(rel)), Tail(rel))

\* self.output_dir / filename
JoinPath(filename) == Resolve(output_dir, filename)

\* Path.write_bytes succeeds when the parent directory exists and the path
\* is not itself a directory; otherwise it raises OSError.
CanWrite(path) ==
    /\ path # <<>>
    /\ path \notin Dirs
    /\ SubSeq(path, 1, Len(path) - 1) \in Dirs

\* write_bytes replaced by a write in append mode: the bytes are added to
\* what the file already holds.
WriteBytes_Appends(fs, path, bytes) ==
    [q \in (DOMAIN fs) \cup {path} |->
        IF q = path
        THEN (IF path \in DOMAIN fs THEN fs[path] ELSE <<>>) \o bytes
        ELSE fs[q]]

\* The file system after write_bytes(path, bytes): create or overwrite.
WriteBytes(fs, path, bytes) ==
    [q \in (DOMAIN fs) \cup {path} |-> IF q = path THEN bytes ELSE fs[q]]

\* TRUE when path lies under the output root.
UnderOutputDir(path) ==
    /\ Len(path) > Len(output_dir)
    /\ SubSeq(path, 1, Len(output_dir)) = output_dir

\* --------------------------------------------------------------- messages
\* One decoded JSON message of the stream: the keys receive_frames reads.
\* ("timestamp" is read at line 123 and never used, so it is left out.)
Msg(type, index, total, filename, data, total_frames) ==
    [type |-> type, index |-> index, total |-> total, filename |-> filename,
     data |-> data, total_frames |-> total_frames]

\* The value of msg before any message has been read.
NoMsg == Msg("none", None, None, None, JAbsent, None)

\* The "data" of a frame message: missing, or one of the base64 texts.
DataValues ==
    {JAbsent, JStr(PayloadA), JStr(PayloadB), JStr(PayloadBad),
     JStr(PayloadJunk)}

FileNames ==
    {None, Some(NameF0), Some(NameF1), Some(NameEscape), Some(NameNoDir),
     Some(NameAlias)}

StatusMsgs ==
    {Msg("status", None, None, None, d, None) :
        d \in {JAbsent, JNull, JDict("generating"), JStr(PayloadA)}}

\* "index" and "total" of a frame message: both set, or both missing (the
\* handler reads the two with the same dict.get and uses neither for the
\* write or the count).
IndexTotal == {<<Some(0), Some(MaxTotal)>>, <<None, None>>}

FrameMsgs ==
    {Msg("frame", it[1], it[2], f, d, None) :
        it \in IndexTotal, f \in FileNames, d \in DataValues}

CompleteMsgs ==
    {Msg("complete", None, None, None, JAbsent, n) :
        n \in {None} \cup {Some(k) : k \in 0..MaxTotal}}

\* A message whose "type" is none of status, frame, complete.
OtherMsgs == {Msg("other", None, None, None, JAbsent, None)}

Messages == StatusMsgs \cup FrameMsgs \cup CompleteMsgs \cup OtherMsgs

\* ------------------------------------------------------------------ state
VARIABLES
    pc,                 \* where main() is
    skip_init,          \* args.skip_init
    skip_generate,      \* args.skip_generate
    satellite_file,     \* args.satellite_file: "none", "readable", "unreadable"
    frames_received,    \* self.frames_received
    total_frames,       \* self.total_frames
    files,              \* the files written by write_bytes: path -> bytes
    metadata,           \* the records written to metadata.txt, in order
    printed,            \* the lines printed so far (as tags)
    status,             \* the last status text printed
    msg,                \* the message read last
    msgs_read,          \* number of messages read from the stream
    init_requests,      \* POSTs sent to /api/initialize
    generate_requests,  \* POSTs sent to /api/generate
    ws_connects,        \* calls of create_connection
    ws,                 \* the connection: "none", "open", "closed"
    frame_writes,       \* calls of write_bytes that returned
    exit_cause,         \* the branch that left the receive loop
    init_result,        \* what the initialize request did ("none": not sent)
    generate_result     \* what the generate request did ("none": not sent)

vars ==
    <<pc, skip_init, skip_generate, satellite_file, frames_received,
      total_frames, files, metadata, printed, status, msg, msgs_read,
      init_requests, generate_requests, ws_connects, ws, frame_writes,
      exit_cause, init_result, generate_result>>

\* HeatmapClient.__init__ and the parsed arguments.  --satellite-file is
\* looked at only when initialization is not skipped (lines 184-189), so
\* with --skip-init it is drawn as not given.
Init ==
    /\ pc = "main"
    /\ skip_init \in BOOLEAN
    /\ skip_generate \in BOOLEAN
    /\ satellite_file \in
         IF skip_init THEN {"none"} ELSE {"none", "readable", "unreadable"}
    /\ frames_received = 0
    /\ total_frames = 0
    /\ files = [q \in {} |-> <<>>]
    /\ metadata = <<>>
    /\ printed = {}
    /\ status = ""
    /\ msg = NoMsg
    /\ msgs_read = 0
    /\ init_requests = 0
    /\ generate_requests = 0
    /\ ws_connects = 0
    /\ ws = "none"
    /\ frame_writes = 0
    /\ exit_cause = "none"
    /\ init_result = "none"
    /\ generate_result = "none"

\* ---------------------------------------------------------- control phase
\* What requests.post / raise_for_status / response.json can do.
ControlResults == {"ok", "transport_error", "http_error", "bad_body"}

\* initialize_backend without its raise_for_status call: an error status
\* with a JSON body counts as success.
initialize_backend_NoRaiseForStatus(result) == result \in {"ok", "http_error"}

\* initialize_backend's return value for a response.
initialize_backend(result) == result = "ok"

\* start_generation whose except branch returns True as well.
start_generation_TrueOnError(result, announced, old_total) ==
    IF result = "ok"
    THEN [ok |-> TRUE,
          total_frames |-> IF announced = None THEN 0 ELSE announced[1]]
    ELSE [ok |-> TRUE, total_frames |-> old_total]

\* start_generation's effect for a response: its return value and the new
\* self.total_frames (result.get("total_frames", 0) on success).
start_generation(result, announced, old_total) ==
    IF result = "ok"
    THEN [ok |-> TRUE,
          total_frames |-> IF announced = None THEN 0 ELSE announced[1]]
    ELSE [ok |-> FALSE, total_frames |-> old_total]

StreamVars ==
    <<frames_received, files, metadata, status, msg, msgs_read, ws_connects,
      ws, frame_writes, exit_cause>>

ArgVars == <<skip_init, skip_generate, satellite_file>>

\* main, lines 184-187: initialization wanted but no --satellite-file.
RequireSatelliteFile ==
    /\ pc = "main"
    /\ ~skip_init
    /\ satellite_file = "none"
    /\ printed' = printed \cup {"satellite_file_required"}
    /\ pc' = "done"
    /\ UNCHANGED <<ArgVars, StreamVars, total_frames, init_requests,
                   generate_requests, init_result, generate_result>>

\* main, line 184 with --skip-init.
SkipInit ==
    /\ pc = "main"
    /\ skip_init
    /\ pc' = "generate"
    /\ UNCHANGED <<ArgVars, StreamVars, total_frames, init_requests,
                   generate_requests, printed, init_result, generate_result>>

\* initialize_backend, lines 38-39: the satellite file cannot be read or
\* parsed; the exception is raised outside the try and main does not catch it.
InitializeUnreadable ==
    /\ pc = "main"
    /\ ~skip_init
    /\ satellite_file = "unreadable"
    /\ printed' = printed \cup {"traceback"}
    /\ pc' = "crashed"
    /\ UNCHANGED <<ArgVars, StreamVars, total_frames, init_requests,
                   generate_requests, init_result, generate_result>>

\* main, lines 189-193, with initialize_backend's request.
Initialize ==
    /\ pc = "main"
    /\ ~skip_init
    /\ satellite_file = "readable"
    /\ \E result \in ControlResults :
         /\ init_requests' = init_requests + 1
         /\ init_result' = result
         /\ IF initialize_backend(result)
            THEN /\ printed' = printed \cup {"backend_initialized"}
                 /\ pc' = "generate"
            ELSE /\ printed' = printed \cup
                        {"failed_to_initialize", "initialization_failed"}
                 /\ pc' = "done"
    /\ UNCHANGED <<ArgVars, StreamVars, total_frames, generate_requests,
                   generate_result>>

\* main, line 196 with --skip-generate.
SkipGenerate ==
    /\ pc = "generate"
    /\ skip_generate
    /\ pc' = "connect"
    /\ UNCHANGED <<ArgVars, StreamVars, total_frames, init_requests,
                   generate_requests, printed, init_result, generate_result>>

\* main, lines 197-205, with start_generation's request.
StartGeneration ==
    /\ pc = "generate"
    /\ ~skip_generate
    /\ \E result \in ControlResults,
          announced \in {None} \cup {Some(k) : k \in 0..MaxTotal} :
         LET r == start_generation(result, announced, total_frames) IN
         /\ generate_requests' = generate_requests + 1
         /\ generate_result' = result
         /\ total_frames' = r.total_frames
         /\ IF r.ok
            THEN /\ printed' = printed \cup {"generation_started"}
                 /\ pc' = "connect"
            ELSE /\ printed' = printed \cup
                        {"failed_to_start_generation", "generation_failed"}
                 /\ pc' = "done"
    /\ UNCHANGED <<ArgVars, StreamVars, init_requests, init_result>>

\* -------------------------------------------------------- streaming phase
ControlVars ==
    <<total_frames, init_requests, generate_requests, init_result,
      generate_result>>

\* Connect wrapped in a retry loop: a failed create_connection is tried
\* again.
Connect_RetriesOnFailure ==
    /\ pc = "connect"
    /\ ws_connects' = ws_connects + 1
    /\ \E connected \in BOOLEAN :
         IF connected
         THEN /\ ws' = "open"
              /\ printed' = printed \cup {"ws_connected"}
              /\ pc' = "streaming"
         ELSE /\ ws' = ws
              /\ printed' = printed \cup {"ws_connection_failed"}
              /\ pc' = "connect"
    /\ UNCHANGED <<ArgVars, ControlVars, frames_received, files, metadata,
                   status, msg, msgs_read, frame_writes, exit_cause>>

\* receive_frames, lines 102-104 and 160-161, then main's lines 210-213:
\* create_connection returns a connection or raises.
Connect ==
    /\ pc = "connect"
    /\ ws_connects' = ws_connects + 1
    /\ \E connected \in BOOLEAN :
         IF connected
         THEN /\ ws' = "open"
              /\ printed' = printed \cup {"ws_connected"}
              /\ pc' = "streaming"
         ELSE /\ ws' = ws
              /\ printed' = printed \cup {"ws_connection_failed", "banner"}
              /\ pc' = "done"
    /\ UNCHANGED <<ArgVars, ControlVars, frames_received, files, metadata,
                   status, msg, msgs_read, frame_writes, exit_cause>>

\* The part of the client's state one message handler reads and writes.
LoopState ==
    [frames_received |-> frames_received, files |-> files,
     frame_writes |-> frame_writes, status |-> status, printed |-> printed]

\* A handler's result: the state it leaves, whether it raised, and whether
\* it reached the break of the complete branch.
Handled(s) == [s |-> s, raised |-> FALSE, complete |-> FALSE]
Raised(s) == [s |-> s, raised |-> TRUE, complete |-> FALSE]

\* Lines 115-117: data.get("data", {}) then status.get('status', 'unknown');
\* a "data" that is no object has no get and raises AttributeError.
ProcessStatus(m, s) ==
    LET d == IF m.data.kind = "absent" THEN JDict("") ELSE m.data IN
    IF d.kind # "dict"
    THEN Raised(s)
    ELSE Handled([s EXCEPT !.status =
                     IF d.status = "" THEN "unknown" ELSE d.status])

\* ProcessFrame with the count moved ahead of the write: a frame whose
\* write fails is counted all the same.
ProcessFrame_CountsBeforeWrite(m, s) ==
    LET frame_bytes == b64decode(m.data) IN
    IF ~frame_bytes.ok
    THEN Raised(s)
    ELSE IF m.filename = None
    THEN Raised(s)
    ELSE LET frame_path == JoinPath(m.filename[1]) IN
         IF ~CanWrite(frame_path)
         THEN Raised([s EXCEPT !.frames_received = s.frames_received + 1])
         ELSE Handled([s EXCEPT
                  !.files = WriteBytes(s.files, frame_path, frame_bytes.bytes),
                  !.frame_writes = s.frame_writes + 1,
                  !.frames_received = s.frames_received + 1])

\* Lines 119-134: decode, join the path, write the file, count the frame.
\* Each of the first three can raise; the count follows a write that
\* returned.  (The progress print of lines 133-134 changes nothing.)
ProcessFrame(m, s) ==
    LET frame_bytes == b64decode(m.data) IN
    IF ~frame_bytes.ok
    THEN Raised(s)
    ELSE IF m.filename = None
    THEN Raised(s)
    ELSE LET frame_path == JoinPath(m.filename[1]) IN
         IF ~CanWrite(frame_path)
         THEN Raised(s)
         ELSE Handled([s EXCEPT
                  !.files = WriteBytes(s.files, frame_path, frame_bytes.bytes),
                  !.frame_writes = s.frame_writes + 1,
                  !.frames_received = s.frames_received + 1])

\* Lines 136-139: the total is printed and the loop is left.
ProcessComplete(m, s) ==
    [s |-> [s EXCEPT !.printed = s.printed \cup {"transfer_complete"}],
     raised |-> FALSE, complete |-> TRUE]

\* Dispatch with a final "else: raise": a type that is none of the three
\* is an error, which ends the loop.
Dispatch_UnknownTypeRaises(m, s) ==
    CASE m.type = "status" -> ProcessStatus(m, s)
      [] m.type = "frame" -> ProcessFrame(m, s)
      [] m.type = "complete" -> ProcessComplete(m, s)
      [] OTHER -> Raised(s)

\* Lines 113-139: the if / elif chain on data.get("type"); a type that is
\* none of the three falls through and the loop reads on.
Dispatch(m, s) ==
    CASE m.type = "status" -> ProcessStatus(m, s)
      [] m.type = "frame" -> ProcessFrame(m, s)
      [] m.type = "complete" -> ProcessComplete(m, s)
      [] OTHER -> Handled(s)

\* AfterMessage without the break of line 139: a complete message is
\* printed and the loop reads on.
AfterMessage_CompleteContinues(r) ==
    IF r.raised THEN [pc |-> "closing", exit_cause |-> "handling",
                      printed |-> r.s.printed \cup {"error_receiving_frame"}]
    ELSE [pc |-> "streaming", exit_cause |-> "none", printed |-> r.s.printed]

\* AfterMessage without the inner "except Exception": an error raised by
\* a handler reaches the outer handler of line 160 and receive_frames
\* returns at once.
AfterMessage_NoInnerExcept(r) ==
    IF r.raised THEN [pc |-> "done", exit_cause |-> "handling",
                      printed |-> r.s.printed \cup
                          {"ws_connection_failed", "banner"}]
    ELSE IF r.complete THEN [pc |-> "closing", exit_cause |-> "complete",
                             printed |-> r.s.printed]
    ELSE [pc |-> "streaming", exit_cause |-> "none", printed |-> r.s.printed]

\* Lines 139 and 144-146: where the loop goes after a handled message.
AfterMessage(r) ==
    IF r.raised THEN [pc |-> "closing", exit_cause |-> "handling",
                      printed |-> r.s.printed \cup {"error_receiving_frame"}]
    ELSE IF r.complete THEN [pc |-> "closing", exit_cause |-> "complete",
                             printed |-> r.s.printed]
    ELSE [pc |-> "streaming", exit_cause |-> "none", printed |-> r.s.printed]

\* One turn of the loop, lines 108-146, for a message that parses to an
\* object.
RecvMessage ==
    /\ pc = "streaming"
    /\ \E m \in Messages :
         /\ msgs_read < MaxMsgs \/ m.type = "complete"
         /\ LET r == Dispatch(m, LoopState)
                a == AfterMessage(r)
            IN /\ msg' = m
               /\ frames_received' = r.s.frames_received
               /\ files' = r.s.files
               /\ frame_writes' = r.s.frame_writes
               /\ status' = r.s.status
               /\ printed' = a.printed
               /\ pc' = a.pc
               /\ exit_cause' = a.exit_cause
    /\ msgs_read' = msgs_read + 1
    /\ UNCHANGED <<ArgVars, ControlVars, metadata, ws_connects, ws>>

\* Lines 110-111 and 144-146: the text is no JSON (json.loads raises) or no
\* JSON object (data.get raises).
RecvUndecodable ==
    /\ pc = "streaming"
    /\ msgs_read' = msgs_read + 1
    /\ msg' = NoMsg
    /\ printed' = printed \cup {"error_receiving_frame"}
    /\ exit_cause' = "handling"
    /\ pc' = "closing"
    /\ UNCHANGED <<ArgVars, ControlVars, frames_received, files, metadata,
                   status, ws_connects, ws, frame_writes>>

\* RecvTimeout without the "except WebSocketTimeoutException" clause: the
\* timeout is caught by "except Exception" and reported as an error.
RecvTimeout_CaughtAsError ==
    /\ pc = "streaming"
    /\ printed' = printed \cup {"error_receiving_frame"}
    /\ exit_cause' = "timeout"
    /\ pc' = "closing"
    /\ UNCHANGED <<ArgVars, ControlVars, frames_received, files, metadata,
                   status, msg, msgs_read, ws_connects, ws, frame_writes>>

\* Lines 110 and 141-143: ws.recv() raises WebSocketTimeoutException.
RecvTimeout ==
    /\ pc = "streaming"
    /\ printed' = printed \cup {"ws_timeout"}
    /\ exit_cause' = "timeout"
    /\ pc' = "closing"
    /\ UNCHANGED <<ArgVars, ControlVars, frames_received, files, metadata,
                   status, msg, msgs_read, ws_connects, ws, frame_writes>>

\* Lines 110 and 144-146: ws.recv() raises another exception (the
\* connection was reset or closed, a protocol error).
RecvTransportError ==
    /\ pc = "streaming"
    /\ printed' = printed \cup {"error_receiving_frame"}
    /\ exit_cause' = "transport"
    /\ pc' = "closing"
    /\ UNCHANGED <<ArgVars, ControlVars, frames_received, files, metadata,
                   status, msg, msgs_read, ws_connects, ws, frame_writes>>

\* Summary with the two counts written under each other's label.
Summary_CountsSwapped(received, expected) ==
    [frames_received |-> expected, total_expected |-> received,
     output_directory |-> output_dir]

\* The record written to metadata.txt, lines 154-156.
Summary(received, expected) ==
    [frames_received |-> received, total_expected |-> expected,
     output_directory |-> output_dir]

\* Lines 148-158, then main's lines 210-213: close the connection, write
\* metadata.txt, print the banner.
CloseAndSaveMetadata ==
    /\ pc = "closing"
    /\ ws' = "closed"
    /\ metadata' = Append(metadata, Summary(frames_received, total_frames))
    /\ printed' = printed \cup {"ws_closed", "metadata_saved", "banner"}
    /\ pc' = "done"
    /\ UNCHANGED <<ArgVars, ControlVars, frames_received, files, status, msg,
                   msgs_read, ws_connects, frame_writes, exit_cause>>

Next ==
    \/ RequireSatelliteFile
    \/ SkipInit
    \/ InitializeUnreadable
    \/ Initialize
    \/ SkipGenerate
    \/ StartGeneration
    \/ Connect
    \/ RecvMessage
    \/ RecvUndecodable
    \/ RecvTimeout
    \/ RecvTransportError
    \/ CloseAndSaveMetadata

Spec == Init /\ [][Next]_vars

\* A user interrupt while receive_frames is in its loop or closing the
\* connection: KeyboardInterrupt is no Exception, so neither the handler of
\* lines 144-146 nor the one of lines 160-161 catches it; it leaves
\* receive_frames and main, and lines 148-158 do not run.
KeyboardInterrupt ==
    /\ pc \in {"streaming", "closing"}
    /\ pc' = "interrupted"
    /\ printed' = printed \cup {"traceback"}
    /\ UNCHANGED <<ArgVars, ControlVars, frames_received, files, metadata,
                   status, msg, msgs_read, ws_connects, ws, frame_writes,
                   exit_cause>>

\* The session with a user who may interrupt it.
NextInterruptible == Next \/ KeyboardInterrupt

SpecInterrupt == Init /\ [][NextInterruptible]_vars

\* ------------------------------------------------------------- outcomes
\* main has returned, or died of an uncaught exception.
Terminal == pc \in {"done", "crashed", "interrupted"}

\* The printed lines that report a failure.
FailureReasons ==
    {"satellite_file_required", "traceback", "initialization_failed",
     "generation_failed", "ws_connection_failed", "error_receiving_frame"}

\* The terminal outcome a reader of the output sees: the session's outcome
\* is what its printed reason lines say, and lines of two kinds say nothing.
Outcome ==
    LET completed == "transfer_complete" \in printed
        timed_out == "ws_timeout" \in printed
        failed == printed \cap FailureReasons # {}
    IN IF ~Terminal THEN "Running"
       ELSE IF completed /\ ~timed_out /\ ~failed THEN "Completed"
       ELSE IF timed_out /\ ~completed /\ ~failed THEN "TimedOut"
       ELSE IF failed /\ ~completed /\ ~timed_out THEN "Failed"
       ELSE "Ambiguous"

\* A control request was sent and did not succeed, or initialize_backend
\* raised before sending one.
ControlCallFailed ==
    \/ init_result \notin {"none", "ok"}
    \/ generate_result \notin {"none", "ok"}
    \/ pc = "crashed"

\* This step read a message from the stream (msg' is that message).
ReadsMessage == pc = "streaming" /\ msgs_read' = msgs_read + 1

\* A frame message with no "data", or whose "data" does not decode.
MalformedFrame(m) ==
    /\ m.type = "frame"
    /\ (m.data.kind = "absent" \/ ~b64decode(m.data).ok)

\* A frame message that decodes and names a file, whose write fails.
FrameWriteFails(m) ==
    /\ m.type = "frame"
    /\ b64decode(m.data).ok
    /\ m.filename # None
    /\ ~CanWrite(JoinPath(m.filename[1]))

\* A frame message the handler writes to a file: it decodes, names a file
\* and the write succeeds.
FrameStored(m) ==
    /\ m.type = "frame"
    /\ b64decode(m.data).ok
    /\ m.filename # None
    /\ CanWrite(JoinPath(m.filename[1]))

\* The bytes RFC 4648 assigns to the base64 texts of the model: "QQ==" is
\* the byte 65 ("A"), "Qg==" the byte 66 ("B"); Python skips the "!" of
\* "Q!Q==" and yields 65 too.
ReferenceBytes(chars) ==
    CASE chars = PayloadA -> <<65>>
      [] chars = PayloadB -> <<66>>
      [] chars = PayloadJunk -> <<65>>
      [] OTHER -> <<>>

\* How far main is from its end: the phases still ahead of pc.
PhasesLeft ==
    CASE pc = "main" -> 5
      [] pc = "generate" -> 4
      [] pc = "connect" -> 3
      [] pc = "streaming" -> 2
      [] pc = "closing" -> 1
      [] OTHER -> 0

\* A bound on the steps the session can still take: the phases ahead, and
\* within the streaming phase the messages the stream can still deliver (at
\* most MaxMsgs that are not complete messages, then a complete message).
StepsLeft == PhasesLeft * (MaxMsgs + 2) + (MaxMsgs + 1 - msgs_read)

\* ----------------------------------------------------------------- claims

\* C1: when a control-phase call fails (initialize or start-generation), the
\* stream connection is never opened, no further control request is sent, and
\* the session ends Failed with frames_received = 0 and no frame file written.
C1_ControlFailureIsFatal ==
    ControlCallFailed =>
        /\ ws_connects = 0
        /\ ws = "none"
        /\ init_requests <= 1
        /\ generate_requests <= 1
        /\ (init_result \notin {"none", "ok"} \/ pc = "crashed") =>
               generate_requests = 0
        /\ frames_received = 0
        /\ frame_writes = 0
        /\ DOMAIN files = {}
        /\ Terminal
        /\ Outcome = "Failed"

C1_Witness ==
    /\ pc = "done"
    /\ init_result = "ok"
    /\ generate_result = "http_error"
    /\ generate_requests = 1

\* C2: once the stream connection is open, every way the receive loop ends
\* (complete message, read timeout, transport error, error while handling a
\* message) leads to the metadata write, which happens exactly once.
C2_SummaryWrittenOnce ==
    /\ Len(metadata) <= 1
    /\ (ws # "none" /\ pc # "streaming") =>
           exit_cause \in {"complete", "timeout", "transport", "handling"}
    /\ pc = "closing" => (Len(metadata) = 0 /\ ENABLED CloseAndSaveMetadata)
    /\ (pc = "done" /\ ws # "none") =>
           /\ Len(metadata) = 1
           /\ metadata[1] = Summary(frames_received, total_frames)

C2_Witness ==
    /\ pc = "done"
    /\ exit_cause = "handling"
    /\ msg.type = "frame"
    /\ Len(metadata) = 1

\* C3: when the control phase announced total_frames = N and the complete
\* message reports total_frames = M with M # N, the summary stores M as the
\* expected count.
C3_CompleteCountIsAuthoritative ==
    (/\ pc = "done"
     /\ exit_cause = "complete"
     /\ generate_result = "ok"
     /\ msg.total_frames # None
     /\ msg.total_frames # Some(total_frames))
    => (Len(metadata) = 1 /\ Some(metadata[1].total_expected) = msg.total_frames)

\* C4: a malformed frame message (no data field, or an undecodable payload)
\* does not end the streaming phase: the loop stays in Streaming.
C4_MalformedFrameKeepsStreaming ==
    [][(ReadsMessage /\ MalformedFrame(msg')) => pc' = "streaming"]_vars

\* C5: a frame whose file name escapes the output root is rejected: nothing
\* is written outside the output root.
C5_NoWriteOutsideOutputRoot ==
    \A path \in DOMAIN files : UnderOutputDir(path)

\* C6: a read timeout after k frames were persisted ends the session in the
\* TimedOut outcome (not Completed, not Failed) and the summary records
\* frames_received = k.
C6_TimeoutOutcome ==
    (pc = "done" /\ exit_cause = "timeout") =>
        /\ Outcome = "TimedOut"
        /\ Len(metadata) = 1
        /\ metadata[1].frames_received = frame_writes
        /\ metadata[1].frames_received = frames_received

C6_Witness ==
    /\ pc = "done"
    /\ exit_cause = "timeout"
    /\ generate_result = "ok"
    /\ frame_writes = 1
    /\ total_frames = 2
    /\ metadata[1].frames_received = 1

\* C7: every terminal outcome (Completed, TimedOut, Failed, also Failed by a
\* control-phase error or a failed connection) is reported with a reason
\* that tells it from the others and yields a summary record.
C7_EveryOutcomeHasSummary ==
    Terminal =>
        /\ Outcome \in {"Completed", "TimedOut", "Failed"}
        /\ Len(metadata) = 1

\* C8: frames_received always equals the number of frame writes that
\* completed, and no step decreases it.
C8_CountsCompletedWrites ==
    /\ [](frames_received = frame_writes)
    /\ [][frames_received' >= frames_received]_vars

C8_Witness ==
    /\ frames_received = 2
    /\ frame_writes = 2
    /\ exit_cause = "handling"
    /\ FrameWriteFails(msg)

\* C9: once frames_expected is known (the generate request succeeded),
\* frames_received never exceeds it, whatever the server sends.
C9_NeverExceedsExpected ==
    generate_result = "ok" => frames_received <= total_frames

\* C10: a frame whose write fails does not end the streaming phase: the loop
\* continues and frames_received is not incremented for it.
C10_WriteFailureKeepsStreaming ==
    [][(ReadsMessage /\ FrameWriteFails(msg')) =>
           (pc' = "streaming" /\ frames_received' = frames_received)]_vars

\* C11: a message whose type is none of status, frame, complete never ends
\* the session: the loop stays in Streaming, frames_received and the files
\* written are unchanged, and the next message can be read.
C11_UnknownTypeKeepsStreaming ==
    [][(ReadsMessage /\ msg'.type \notin {"status", "frame", "complete", "none"}) =>
           /\ pc' = "streaming"
           /\ exit_cause' = "none"
           /\ frames_received' = frames_received
           /\ frame_writes' = frame_writes
           /\ files' = files
           /\ metadata' = metadata]_vars

C11_Witness ==
    /\ pc = "streaming"
    /\ msg.type = "other"
    /\ msgs_read = 2
    /\ frames_received = 1

\* C12: a user interrupt during the streaming phase still results in the
\* summary being written, with frames_received equal to the number of frames
\* persisted before the interrupt.
C12_InterruptStillWritesSummary ==
    pc = "interrupted" =>
        /\ Len(metadata) = 1
        /\ metadata[1].frames_received = frame_writes

\* C13: receiving the same frame (same name, same payload) twice leaves one
\* file under that name, holding the payload: the second write changes
\* nothing in the set of files.
C13_RedeliveryIsIdempotent ==
    [][(ReadsMessage /\ msg' = msg /\ FrameStored(msg')) =>
           /\ files' = files
           /\ files'[JoinPath(msg'.filename[1])] = ReferenceBytes(msg'.data.chars)]_vars

\* (The state after the same frame was read twice.)
C13_Witness ==
    /\ pc = "streaming"
    /\ msgs_read = 2
    /\ frame_writes = 2
    /\ msg.filename = Some(NameF0)
    /\ msg.data = JStr(PayloadB)
    /\ DOMAIN files = {JoinPath(NameF0)}
    /\ files[JoinPath(NameF0)] = <<66>>

\* C14 (as stated): the content stored for a frame is not changed by a later
\* message with a different filename.
C14_OtherFilenameKeepsContent ==
    [][(ReadsMessage /\ FrameStored(msg) /\ msg'.type = "frame"
            /\ msg'.filename # msg.filename) =>
           files'[JoinPath(msg.filename[1])] = files[JoinPath(msg.filename[1])]]_vars

\* C14 (amended): after a well-formed frame message is handled, the file at
\* the path its filename resolves to holds the base64-decoding of its
\* payload, and a step changes no file but the one at the path the handled
\* frame's filename resolves to.
C14_RoundTripAndOtherPathsKept ==
    [][/\ (ReadsMessage /\ FrameStored(msg')) =>
              /\ JoinPath(msg'.filename[1]) \in DOMAIN files'
              /\ files'[JoinPath(msg'.filename[1])] = ReferenceBytes(msg'.data.chars)
       /\ \A q \in DOMAIN files :
              /\ q \in DOMAIN files'
              /\ files'[q] # files[q] =>
                     (ReadsMessage /\ FrameStored(msg')
                        /\ q = JoinPath(msg'.filename[1]))]_vars

C14_Witness ==
    /\ pc = "streaming"
    /\ msgs_read = 2
    /\ msg.filename = Some(NameF1)
    /\ msg.data = JStr(PayloadJunk)
    /\ DOMAIN files = {JoinPath(NameF0), JoinPath(NameF1)}
    /\ files[JoinPath(NameF0)] = <<66>>
    /\ files[JoinPath(NameF1)] = <<65>>

\* C15: terminal states are final and nothing is retried: each control
\* request is sent at most once, the connection is opened at most once, and
\* once the receive loop has ended (Completed, TimedOut or Failed) no further
\* message is read, no frame is written, frames_received does not change and
\* the session never goes back to an earlier phase.
C15_NoRetryTerminalFinal ==
    /\ [](init_requests <= 1 /\ generate_requests <= 1 /\ ws_connects <= 1)
    /\ [][(pc \in {"closing", "done", "crashed"}) =>
              /\ msgs_read' = msgs_read
              /\ files' = files
              /\ frame_writes' = frame_writes
              /\ frames_received' = frames_received
              /\ init_requests' = init_requests
              /\ generate_requests' = generate_requests
              /\ ws_connects' = ws_connects
              /\ pc' \in {"closing", "done", "crashed"}
              /\ (Terminal => pc' = pc)]_vars

C15_Witness ==
    /\ pc = "done"
    /\ exit_cause = "complete"
    /\ init_requests = 1
    /\ generate_requests = 1
    /\ ws_connects = 1
    /\ frames_received = 2

\* C16: the stream connection is opened only after every control call that
\* was not skipped has succeeded, initialize before start-generation; with
\* initialization skipped no initialize request is sent and the session goes
\* straight to the generation request.
C16_ConnectAfterControlSuccess ==
    /\ ws_connects > 0 =>
           /\ (skip_init \/ init_result = "ok")
           /\ (skip_generate \/ generate_result = "ok")
    /\ generate_requests > 0 => (skip_init \/ init_result = "ok")
    /\ skip_init => (init_requests = 0 /\ init_result = "none")
    /\ skip_generate => (generate_requests = 0 /\ generate_result = "none")
    /\ pc = "generate" => (generate_requests = 0 /\ ws_connects = 0)

C16_Witness ==
    /\ ws = "open"
    /\ skip_init
    /\ ~skip_generate
    /\ init_requests = 0
    /\ generate_result = "ok"

\* C17: a frame message lacking index or total is treated as malformed: no
\* file is written for it and frames_received is not incremented.
C17_FrameNeedsIndexAndTotal ==
    [][(ReadsMessage /\ msg'.type = "frame"
            /\ (msg'.index = None \/ msg'.total = None)) =>
           (files' = files /\ frames_received' = frames_received)]_vars

\* C18: the summary write comes after every frame write: once metadata.txt
\* is written no frame is written and frames_received does not change, so the
\* frames_received stored in the summary is the number of frame writes
\* completed in the session.
C18_SummaryAfterAllFrameWrites ==
    /\ [](Len(metadata) >= 1 =>
              /\ metadata[Len(metadata)].frames_received = frame_writes
              /\ metadata[Len(metadata)].frames_received = frames_received)
    /\ [][Len(metadata) >= 1 =>
              /\ files' = files
              /\ frame_writes' = frame_writes
              /\ frames_received' = frames_received
              /\ metadata' = metadata]_vars

C18_Witness ==
    /\ pc = "done"
    /\ exit_cause = "transport"
    /\ Len(metadata) = 1
    /\ metadata[1].frames_received = 2
    /\ metadata[1].total_expected = 1
    /\ Cardinality(DOMAIN files) = 2

\* C19: handling a status message changes nothing but the observable status:
\* frames_received, frames_expected and the files are unchanged and the
\* session remains in Streaming.
C19_StatusChangesOnlyStatus ==
    [][(ReadsMessage /\ msg'.type = "status") =>
           /\ pc' = "streaming"
           /\ frames_received' = frames_received
           /\ total_frames' = total_frames
           /\ files' = files]_vars


\* C20: every session reaches a terminal state, provided each call returns
\* and the stream delivers at most MaxMsgs messages that are not complete
\* messages.  Stated without fairness: a session that is not terminal can
\* always take a step, every step lowers the natural number StepsLeft (so no
\* run steps for ever), a complete message, a timeout or an error leaves the
\* receive loop, and a session that ends after the loop has closed the
\* connection.
C20_Terminates ==
    /\ [](Terminal \/ ENABLED Next)
    /\ [](StepsLeft >= 0)
    /\ [][StepsLeft' < StepsLeft]_vars
    /\ [][(pc = "streaming" /\ pc' = "streaming") =>
              (ReadsMessage /\ msg'.type # "complete" /\ exit_cause' = "none")]_vars
    /\ [](Terminal => ws # "open")

C20_Witness ==
    /\ pc = "done"
    /\ ws = "closed"
    /\ exit_cause = "complete"
    /\ msgs_read = MaxMsgs + 1
    /\ StepsLeft = 0

====
